---- MODULE Spec2Model ----
(***************************************************************************)
(* Model of the tree/fold framework (src/src/ast.ts), the debug printer    *)
(* (src/src/printer.ts) and the diagnostic renderer (src/unnamed/part_000, *)
(* the module ast.ts imports as "./error").                                *)
(*                                                                         *)
(* Strings are sequences of one-character strings, so that formatting     *)
(* (template literals, String(n), repeat, join, slice) is computed and    *)
(* never assumed.                                                          *)
(***************************************************************************)
EXTENDS Integers, Sequences, FiniteSets, TLC

VARIABLES
    pc,         \* "start" or "build" (a tree under construction), then the operation applied
    input,      \* error.ts: the source text handed to withErrorPrinter / lines
    f,          \* error.ts: what the callback f does when called
    lineSpans,  \* error.ts: the value lines(input) returned
    console,    \* error.ts: the lines written with console.error, in order
    raised,     \* error.ts: what withErrorPrinter throws to its caller
    ty,         \* printer.ts: the semantic type handed to printTy
    printed,    \* printer.ts: the text the printer returned
    target,     \* printer.ts: the node handed to printExpr / printType
    prec,       \* ast.ts: an operator and what binaryExprPrecedenceClass did with it
    heap,       \* ast.ts: the objects of the trees, by address
    ast,        \* ast.ts: the program, a sequence of references to its items
    folder,     \* ast.ts: the folder handed to fold_ast
    result,     \* ast.ts: the program fold_ast returned
    log,        \* ast.ts: the handler invocations of the fold, in order
    universe    \* what the leaves of the tree under construction are drawn from

errorVars == <<input, f, lineSpans, console, raised>>

tyVars == <<ty, prec>>

printVars == <<printed, target>>

astVars == <<heap, ast, folder, result, log, universe>>

vars == <<pc, errorVars, tyVars, printVars, astVars>>

(***************************************************************************)
(* Bounds of the model.                                                    *)
(***************************************************************************)
MaxLen == 3

MaxTyNodes == 3

MaxNodes == 5

MaxPrintNodes == 4

(***************************************************************************)
(* Strings.                                                                *)
(***************************************************************************)
NL == "\n"

Chars == {"a", NL}

RECURSIVE StringsOfLen(_)
StringsOfLen(n) ==
    IF n = 0 THEN {<<>>}
    ELSE {Append(s, c) : s \in StringsOfLen(n - 1), c \in Chars}

Strings == UNION {StringsOfLen(n) : n \in 0..MaxLen}

Digit(d) == SubSeq(<<"0", "1", "2", "3", "4", "5", "6", "7", "8", "9">>, d + 1, d + 1)

\* String(n) / `${n}` for an integer n: decimal digits, '-' for a negative.
RECURSIVE NatToString(_)
NatToString(n) ==
    IF n < 10 THEN Digit(n) ELSE NatToString(n \div 10) \o Digit(n % 10)

NumberToString(n) == IF n < 0 THEN <<"-">> \o NatToString(-n) ELSE NatToString(n)

\* c.repeat(n) for n >= 0 (a negative count is a RangeError, see renderError).
RECURSIVE Repeat(_, _)
Repeat(s, n) == IF n <= 0 THEN <<>> ELSE s \o Repeat(s, n - 1)

\* input.slice(start, end) for 0 <= start and 0 <= end.
Slice(s, start, end) ==
    LET e == IF end > Len(s) THEN Len(s) ELSE end
    IN  IF start >= e THEN <<>> ELSE SubSeq(s, start + 1, e)


(***************************************************************************)
(* ast.ts: values shared by the tree and the printer.                      *)
(***************************************************************************)
\* A property that is absent, or present with the value undefined.
undefined == [kind |-> "undefined"]

TyString == [kind |-> "string"]

TyInt == [kind |-> "int"]

TyBool == [kind |-> "bool"]

TyList(elem) == [kind |-> "list", elem |-> elem]

TyTuple(elems) == [kind |-> "tuple", elems |-> elems]

TyFn(params, returnTy) == [kind |-> "fn", params |-> params, returnTy |-> returnTy]

TyVar(index) == [kind |-> "var", index |-> index]

TyUnit == TyTuple(<<>>)

\* tyIsUnit without the test of the length.
tyIsUnitAnyTuple(t) == t.kind = "tuple"

tyIsUnit(t) == t.kind = "tuple" /\ Len(t.elems) = 0

\* Indices of the type variables and of the resolutions of the inputs: one
\* and two digits.
Indices == {0, 12}

\* The semantic types built from exactly n nodes, and the sequences of
\* semantic types built from n nodes in all.
RECURSIVE TysOfSize(_), TySeqsOfSize(_)
TysOfSize(n) ==
    IF n <= 0 THEN {}
    ELSE (IF n = 1 THEN {TyString, TyInt, TyBool} \cup {TyVar(i) : i \in Indices} ELSE {})
         \cup {TyList(t) : t \in TysOfSize(n - 1)}
         \cup {TyTuple(ts) : ts \in TySeqsOfSize(n - 1)}
         \cup UNION {{TyFn(ps, r) : ps \in TySeqsOfSize(n - 1 - k), r \in TysOfSize(k)} :
                        k \in 1..(n - 1)}

TySeqsOfSize(n) ==
    IF n = 0 THEN {<<>>}
    ELSE UNION {{<<t>> \o ts : t \in TysOfSize(k), ts \in TySeqsOfSize(n - k)} : k \in 1..n}

Tys == UNION {TysOfSize(n) : n \in 1..MaxTyNodes}

IdleTy == ty = undefined /\ prec = undefined

IdlePrint == printed = <<>> /\ target = undefined

(***************************************************************************)
(* ast.ts: the tree.  Every Item, Expr and Type object is a cell of the    *)
(* heap; a field holding such an object holds a reference to its cell.     *)
(* tsType is the static type of the object.  Identifier, Literal,          *)
(* Resolution, Span and Ty objects are never written after construction    *)
(* and are held as values.                                                 *)
(***************************************************************************)
Ref(a) == [ref |-> a]

Span(start, end) == [start |-> start, end |-> end]

ResLocal(index) == [kind |-> "local", index |-> index]

ResItem(index) == [kind |-> "item", index |-> index]

ResBuiltin(name) == [kind |-> "builtin", name |-> name]

Identifier(name, span, res) == [name |-> name, span |-> span, res |-> res]

BinaryKinds == {"+", "-", "*", "/", "&", "|", "<", ">", "==", "<=", ">=", "!="}

UNARY_KINDS == {"!", "-"}

Number(n) == [kind |-> "number", value |-> n]

\* BINARY_KIND_PREC_CLASS.get(k): undefined for a key the map does not hold.
BINARY_KIND_PREC_CLASS(k) ==
    CASE k \in {"+", "-", "*", "/"} -> Number(0)
      [] k = "&"  -> Number(1)
      [] k = "|"  -> Number(2)
      [] k = "<"  -> Number(3)
      [] k = ">"  -> Number(4)
      [] k = "==" -> Number(5)
      [] k = "<=" -> Number(6)
      [] k = ">=" -> Number(7)
      [] k = "!=" -> Number(8)
      [] OTHER    -> undefined

\* !v for v a number or undefined.
Not(v) == v = undefined \/ v = Number(0)

\* The number returned, or the Error thrown.
binaryExprPrecedenceClass(k) ==
    LET cls == BINARY_KIND_PREC_CLASS(k)
    IN  IF Not(cls) THEN [kind |-> "Error", msg |-> "Invalid binary kind"] ELSE cls

\* The object literals of the node kinds.
TypeIdent(span, t, value) ==
    [tsType |-> "Type", kind |-> "ident", value |-> value, span |-> span, ty |-> t]

TypeList(span, t, elem) ==
    [tsType |-> "Type", kind |-> "list", elem |-> elem, span |-> span, ty |-> t]

TypeTuple(span, t, elems) ==
    [tsType |-> "Type", kind |-> "tuple", elems |-> elems, span |-> span, ty |-> t]

ExprEmpty(span, t) == [tsType |-> "Expr", kind |-> "empty", span |-> span, ty |-> t]

ExprLet(span, t, name, type, rhs, after) ==
    [tsType |-> "Expr", kind |-> "let", name |-> name, type |-> type, rhs |-> rhs,
     after |-> after, span |-> span, ty |-> t]

ExprBlock(span, t, exprs) ==
    [tsType |-> "Expr", kind |-> "block", exprs |-> exprs, span |-> span, ty |-> t]

ExprLiteral(span, t, value) ==
    [tsType |-> "Expr", kind |-> "literal", value |-> value, span |-> span, ty |-> t]

ExprIdent(span, t, value) ==
    [tsType |-> "Expr", kind |-> "ident", value |-> value, span |-> span, ty |-> t]

ExprBinary(span, t, binaryKind, lhs, rhs) ==
    [tsType |-> "Expr", kind |-> "binary", binaryKind |-> binaryKind, lhs |-> lhs,
     rhs |-> rhs, span |-> span, ty |-> t]

ExprUnary(span, t, unaryKind, rhs) ==
    [tsType |-> "Expr", kind |-> "unary", unaryKind |-> unaryKind, rhs |-> rhs,
     span |-> span, ty |-> t]

ExprCall(span, t, lhs, args) ==
    [tsType |-> "Expr", kind |-> "call", lhs |-> lhs, args |-> args, span |-> span, ty |-> t]

ExprIf(span, t, cond, then, else) ==
    [tsType |-> "Expr", kind |-> "if", cond |-> cond, then |-> then, else |-> else,
     span |-> span, ty |-> t]

ItemFunction(span, id, name, args, body, returnType) ==
    [tsType |-> "Item", kind |-> "function", span |-> span,
     node |-> [name |-> name, args |-> args, body |-> body, returnType |-> returnType],
     id |-> id]

FunctionArg(name, type, span) == [name |-> name, type |-> type, span |-> span]

(***************************************************************************)
(* The trees a pass can be handed.  The caller (the parser, or an earlier  *)
(* pass) builds the tree one object at a time: an item with its children   *)
(* still to be built (holes), then each hole in turn.  A universe U fixes  *)
(* what the leaves are drawn from: U.names and U.ress (identifiers),       *)
(* U.literals, U.binaryKinds, U.unaryKinds, and U.ty, the annotation of    *)
(* every expression and written type (undefined before type checking).     *)
(* The span of a node is derived from its address.  A tree is handed to an *)
(* operation only when it has no hole left.                                *)
(***************************************************************************)
SpanAt(a) == Span(2 * a, 2 * a + 1)

Hole(tsType) == [tsType |-> tsType, kind |-> "hole"]

Holes(tsType, k) == [i \in 1..k |-> Hole(tsType)]

\* References to the k cells after the cell at `from`.
RefsAfter(from, k) == [i \in 1..k |-> Ref(from + i)]

HoleCells(h) == {a \in 1..Len(h) : h[a].kind = "hole"}

NoHoles(h) == HoleCells(h) = {}

FirstHole(h) == CHOOSE a \in HoleCells(h) : \A b \in HoleCells(h) : a <= b

\* The cell at a becomes obj, whose children are the new holes.
Fill(h, a, obj, holes) == [h EXCEPT ![a] = obj] \o holes

\* The tree as the parser leaves it, and as the resolver and the type
\* checker leave it.
ParsedUniverse ==
    [names |-> {<<"x">>}, ress |-> {undefined}, literals |-> {[kind |-> "int", value |-> 7]},
     binaryKinds |-> {"+"}, unaryKinds |-> {"!"}, ty |-> undefined]

CheckedUniverse ==
    [names |-> {<<"x">>}, ress |-> {ResLocal(0)}, literals |-> {[kind |-> "str", value |-> <<"s">>]},
     binaryKinds |-> {"=="}, unaryKinds |-> {"-"}, ty |-> TyInt]

IdleAst ==
    /\ heap = <<>>
    /\ ast = <<>>
    /\ folder = undefined
    /\ result = <<>>
    /\ log = <<>>
    /\ universe = undefined

\* A function item is appended to the program, its children to be built.
BuildItem(max) ==
    /\ pc = "build"
    /\ NoHoles(heap)
    /\ \E k \in 0..max, ret \in 0..1 :
          LET at == Len(heap) + 1
          IN  /\ at + k + 1 + ret <= max
              /\ heap' = heap
                    \o <<ItemFunction(SpanAt(at), Len(ast), <<"f">>,
                                      [i \in 1..k |-> FunctionArg(<<"a">>, Ref(at + i), SpanAt(at + i))],
                                      Ref(at + k + 1),
                                      IF ret = 1 THEN Ref(at + k + 2) ELSE undefined)>>
                    \o Holes("Type", k) \o Holes("Expr", 1) \o Holes("Type", ret)
              /\ ast' = Append(ast, Ref(at))
    /\ UNCHANGED <<pc, folder, result, log, universe, errorVars, tyVars, printVars>>

\* The first hole, a written type, is built.
BuildType(max) ==
    /\ pc = "build"
    /\ ~NoHoles(heap)
    /\ LET a    == FirstHole(heap)
           sp   == SpanAt(a)
           U    == universe
           end  == Len(heap)
           room == max - Len(heap)
       IN  /\ heap[a].tsType = "Type"
           /\ \/ \E nm \in U.names, rs \in U.ress :
                    heap' = Fill(heap, a, TypeIdent(sp, U.ty, Identifier(nm, sp, rs)), <<>>)
              \/ /\ room >= 1
                 /\ heap' = Fill(heap, a, TypeList(sp, U.ty, Ref(end + 1)), Holes("Type", 1))
              \/ \E k \in 0..room :
                    heap' = Fill(heap, a, TypeTuple(sp, U.ty, RefsAfter(end, k)), Holes("Type", k))
    /\ UNCHANGED <<pc, ast, folder, result, log, universe, errorVars, tyVars, printVars>>

\* The first hole, an expression, is built.
BuildExpr(max) ==
    /\ pc = "build"
    /\ ~NoHoles(heap)
    /\ LET a    == FirstHole(heap)
           sp   == SpanAt(a)
           U    == universe
           end  == Len(heap)
           room == max - Len(heap)
       IN  /\ heap[a].tsType = "Expr"
           /\ \/ heap' = Fill(heap, a, ExprEmpty(sp, U.ty), <<>>)
              \/ \E v \in U.literals : heap' = Fill(heap, a, ExprLiteral(sp, U.ty, v), <<>>)
              \/ \E nm \in U.names, rs \in U.ress :
                    heap' = Fill(heap, a, ExprIdent(sp, U.ty, Identifier(nm, sp, rs)), <<>>)
              \/ \E k \in 0..room :
                    heap' = Fill(heap, a, ExprBlock(sp, U.ty, RefsAfter(end, k)), Holes("Expr", k))
              \/ \E op \in U.unaryKinds :
                    /\ room >= 1
                    /\ heap' = Fill(heap, a, ExprUnary(sp, U.ty, op, Ref(end + 1)), Holes("Expr", 1))
              \/ \E op \in U.binaryKinds :
                    /\ room >= 2
                    /\ heap' = Fill(heap, a, ExprBinary(sp, U.ty, op, Ref(end + 1), Ref(end + 2)),
                                    Holes("Expr", 2))
              \/ \E k \in 0..(room - 1) :
                    heap' = Fill(heap, a, ExprCall(sp, U.ty, Ref(end + 1), RefsAfter(end + 1, k)),
                                 Holes("Expr", 1 + k))
              \/ \E t \in 0..1 :
                    /\ room >= 2 + t
                    /\ heap' = Fill(heap, a,
                                    ExprLet(sp, U.ty, <<"v">>,
                                            IF t = 1 THEN Ref(end + 1) ELSE undefined,
                                            Ref(end + t + 1), Ref(end + t + 2)),
                                    Holes("Type", t) \o Holes("Expr", 2))
              \/ \E el \in 0..1 :
                    /\ room >= 2 + el
                    /\ heap' = Fill(heap, a,
                                    ExprIf(sp, U.ty, Ref(end + 1), Ref(end + 2),
                                           IF el = 1 THEN Ref(end + 3) ELSE undefined),
                                    Holes("Expr", 2 + el))
    /\ UNCHANGED <<pc, ast, folder, result, log, universe, errorVars, tyVars, printVars>>

(***************************************************************************)
(* error.ts                                                                *)
(***************************************************************************)
\* Number.MAX_SAFE_INTEGER is 2^53 - 1.  TLC's integers are 32 bits wide, so
\* the sentinel is the largest of them; the code only compares it and
\* subtracts it from a position within the input.
MAX_SAFE_INTEGER == 2147483647

min(a, b) == IF a < b THEN a ELSE b

\* lines() starting the next line at the newline instead of after it.
RECURSIVE linesLoopAtNewline(_, _)
linesLoopAtNewline(in, i) ==
    IF i = 0 THEN <<[start |-> 0, end |-> 0]>>
    ELSE LET acc  == linesLoopAtNewline(in, i - 1)
             last == acc[Len(acc)]
         IN  IF in[i] = NL
             THEN Append(acc, [start |-> i - 1, end |-> i - 1])
             ELSE [acc EXCEPT ![Len(acc)] = [start |-> last.start, end |-> last.end + 1]]

\* The loop of lines(): state after the characters 0..i-1 were consumed.
RECURSIVE linesLoop(_, _)
linesLoop(in, i) ==
    IF i = 0 THEN <<Span(0, 0)>>
    ELSE LET acc  == linesLoop(in, i - 1)
             last == acc[Len(acc)]
         IN  IF in[i] = NL
             THEN Append(acc, Span(i, i))
             ELSE [acc EXCEPT ![Len(acc)] = Span(last.start, last.end + 1)]

lines(in) == linesLoop(in, Len(in))

spanToSnippet(in, span) ==
    IF span.start = MAX_SAFE_INTEGER THEN <<>> ELSE Slice(in, span.start, span.end)

\* Array.prototype.find: index of the first element satisfying the test, 0 if none.
findLine(ls, start) ==
    LET hits == {k \in 1..Len(ls) : ls[k].start <= start /\ ls[k].end >= start}
    IN  IF hits = {} THEN 0 ELSE CHOOSE k \in hits : \A j \in hits : k <= j

Filename == <<"f">>

\* renderError: the lines printed and the error thrown, if any.
renderError(in, filename, e) ==
    LET ls      == lines(in)
        lineIdx == IF e.span.start = MAX_SAFE_INTEGER THEN Len(ls)
                   ELSE findLine(ls, e.span.start)
    IN  IF lineIdx = 0
        THEN [console |-> <<>>, threw |-> [kind |-> "Error", msg |-> "Span out of bounds"],
              line |-> Span(0, 0), startRelLine |-> 0, spanLength |-> 0]
        ELSE
        LET line   == ls[lineIdx]
            lineNo == lineIdx
            head   == << <<"e", "r", "r", "o", "r", ":", " ">> \o e.msg,
                         <<" ", "-", "-", ">", " ">> \o filename \o <<":">> \o NumberToString(lineNo),
                         NumberToString(lineNo) \o <<" ", "|", " ">> \o spanToSnippet(in, line) >>
            startRelLine == IF e.span.start = MAX_SAFE_INTEGER THEN 0
                            ELSE e.span.start - line.start
            spanLength   == min(e.span.end, line.end) - e.span.start
        IN  IF startRelLine < 0 \/ spanLength < 0
            THEN [console |-> head, threw |-> [kind |-> "RangeError", msg |-> "Invalid count value"],
                  line |-> line, startRelLine |-> startRelLine, spanLength |-> spanLength]
            ELSE [console |-> Append(head,
                                Repeat(<<" ">>, Len(NumberToString(lineNo))) \o <<" ", " ", " ">>
                                \o Repeat(<<" ">>, startRelLine) \o Repeat(<<"^">>, spanLength)),
                  threw |-> [kind |-> "none"],
                  line |-> line, startRelLine |-> startRelLine, spanLength |-> spanLength]

\* withErrorPrinter: what is printed and what reaches the caller.
withErrorPrinter(in, filename, fn) ==
    IF fn.kind = "returns" THEN [console |-> <<>>, raised |-> [kind |-> "none"]]
    ELSE IF fn.e.kind = "CompilerError"
         THEN LET r == renderError(in, filename, fn.e)
              IN  [console |-> r.console, raised |-> r.threw]
         ELSE [console |-> <<>>, raised |-> fn.e]

\* Span positions f may report: in and out of bounds, and the sentinel.
Positions == (-1 .. (MaxLen + 1)) \cup {MAX_SAFE_INTEGER}

CompilerErrors ==
    {[kind |-> "CompilerError", msg |-> <<"m">>, span |-> Span(s, e)] :
        s \in Positions, e \in Positions}

OtherThrown == {[kind |-> "Error", msg |-> "bug"], [kind |-> "TypeError", msg |-> "bug"]}

Callbacks ==
    {[kind |-> "returns"]} \cup {[kind |-> "throws", e |-> e] : e \in CompilerErrors \cup OtherThrown}

IdleError ==
    /\ input = <<>>
    /\ f = [kind |-> "returns"]
    /\ lineSpans = <<>>
    /\ console = <<>>
    /\ raised = [kind |-> "none"]

InitError ==
    /\ pc = "start"
    /\ input \in Strings
    /\ f \in Callbacks
    /\ lineSpans = <<>>
    /\ console = <<>>
    /\ raised = [kind |-> "none"]
    /\ IdleTy
    /\ IdlePrint
    /\ IdleAst

CallLines ==
    /\ pc = "start"
    /\ pc' = "lines"
    /\ lineSpans' = lines(input)
    /\ UNCHANGED <<input, f, console, raised, tyVars, printVars, astVars>>

CallWithErrorPrinter ==
    /\ pc = "start"
    /\ pc' = "printed"
    /\ LET r == withErrorPrinter(input, Filename, f)
       IN  console' = r.console /\ raised' = r.raised
    /\ UNCHANGED <<input, f, lineSpans, tyVars, printVars, astVars>>

NextError == CallLines \/ CallWithErrorPrinter

SpecError == InitError /\ [][NextError]_vars


(***************************************************************************)
(* printer.ts: printTy                                                     *)
(***************************************************************************)
\* Array.prototype.join
RECURSIVE Join(_, _)
Join(strs, sep) ==
    IF Len(strs) = 0 THEN <<>>
    ELSE IF Len(strs) = 1 THEN strs[1]
    ELSE strs[1] \o sep \o Join(Tail(strs), sep)

CommaSpace == <<",", " ">>

ColonSpace == <<":", " ">>

RECURSIVE printTy(_)
printTy(t) ==
    CASE t.kind = "string" -> <<"S", "t", "r", "i", "n", "g">>
      [] t.kind = "int"    -> <<"I", "n", "t">>
      [] t.kind = "bool"   -> <<"B", "o", "o", "l">>
      [] t.kind = "list"   -> <<"[">> \o printTy(t.elem) \o <<"]">>
      [] t.kind = "tuple"  ->
            <<"(">> \o Join([i \in 1..Len(t.elems) |-> printTy(t.elems[i])], CommaSpace) \o <<")">>
      [] t.kind = "fn"     ->
            LET ret == IF tyIsUnit(t.returnTy) THEN <<>> ELSE ColonSpace \o printTy(t.returnTy)
            IN  <<"f", "n", "(">>
                \o Join([i \in 1..Len(t.params) |-> printTy(t.params[i])], CommaSpace)
                \o <<")">> \o ret
      [] t.kind = "var"    -> <<"?">> \o NumberToString(t.index)

InitTy ==
    /\ pc = "start"
    /\ ty \in Tys
    /\ prec = undefined
    /\ IdlePrint
    /\ IdleError
    /\ IdleAst

CallPrintTy ==
    /\ pc = "start"
    /\ pc' = "printedTy"
    /\ printed' = printTy(ty)
    /\ UNCHANGED <<ty, prec, target, errorVars, astVars>>

\* Operators outside BinaryKind, as an untyped caller can pass them.
InvalidKinds == {"%", "&&"}

CallBinaryExprPrecedenceClass(k) ==
    /\ pc = "start"
    /\ pc' = "classified"
    /\ prec' = [k |-> k, outcome |-> binaryExprPrecedenceClass(k)]
    /\ UNCHANGED <<ty, printVars, errorVars, astVars>>

NextTy ==
    \/ CallPrintTy
    \/ \E k \in BinaryKinds \cup InvalidKinds : CallBinaryExprPrecedenceClass(k)

SpecTy == InitTy /\ [][NextTy]_vars

(***************************************************************************)
(* Claims about printTy, checked under SpecTy.                             *)
(***************************************************************************)
\* The grammar of every kind of semantic type but the function type.
NonFnGrammar ==
    /\ ty.kind = "string" => printed = <<"S", "t", "r", "i", "n", "g">>
    /\ ty.kind = "int" => printed = <<"I", "n", "t">>
    /\ ty.kind = "bool" => printed = <<"B", "o", "o", "l">>
    /\ ty.kind = "list" => printed = <<"[">> \o printTy(ty.elem) \o <<"]">>
    /\ ty.kind = "tuple" =>
          printed = <<"(">>
                    \o Join([i \in 1..Len(ty.elems) |-> printTy(ty.elems[i])], <<",", " ">>)
                    \o <<")">>
    /\ ty.kind = "var" => printed = <<"?">> \o NumberToString(ty.index)

FnHead ==
    <<"f", "n", "(">>
    \o Join([i \in 1..Len(ty.params) |-> printTy(ty.params[i])], <<",", " ">>)
    \o <<")">>

\* C7 as stated: the fixed grammar, with every function type, whatever its
\* return type, rendered as 'fn(' params '): ' return type.
C7_Original ==
    pc = "printedTy" =>
        /\ NonFnGrammar
        /\ ty.kind = "fn" => printed = FnHead \o <<":", " ">> \o printTy(ty.returnTy)

\* C7 amended: the fixed grammar, with a function type rendered as
\* 'fn(' params '): ' return type when its return type is not the unit type,
\* and as 'fn(' params ')' alone when its return type is the unit type.
C7_TyGrammar ==
    pc = "printedTy" =>
        /\ NonFnGrammar
        /\ (ty.kind = "fn" /\ ~(ty.returnTy.kind = "tuple" /\ ty.returnTy.elems = <<>>)) =>
              printed = FnHead \o <<":", " ">> \o printTy(ty.returnTy)
        /\ (ty.kind = "fn" /\ ty.returnTy.kind = "tuple" /\ ty.returnTy.elems = <<>>) =>
              printed = FnHead

\* C4: binaryExprPrecedenceClass returns a number for every one of the twelve
\* recognized operators, and raises 'Invalid binary kind' only for an
\* operator outside the table.
C4_PrecedenceTotal ==
    pc = "classified" =>
        /\ prec.k \in BinaryKinds => prec.outcome.kind = "number"
        /\ prec.outcome.kind = "Error" => prec.k \notin BinaryKinds

C7_Witness ==
    /\ pc = "printedTy"
    /\ ty = TyFn(<<TyInt>>, TyUnit)
    /\ printed = <<"f", "n", "(", "I", "n", "t", ")">>

(***************************************************************************)
(* printer.ts: the tree                                                    *)
(***************************************************************************)
\* The text of an operator tag.
KindText(k) ==
    CASE k = "==" -> <<"=", "=">>
      [] k = "<=" -> <<"<", "=">>
      [] k = ">=" -> <<">", "=">>
      [] k = "!=" -> <<"!", "=">>
      [] OTHER    -> <<k>>

\* printRes rendering an item resolution like a local one.
printResNoG(res) ==
    CASE res.kind = "local"   -> <<"#">> \o NumberToString(res.index)
      [] res.kind = "item"    -> <<"#">> \o NumberToString(res.index)
      [] res.kind = "builtin" -> <<"#", "B">>

printRes(res) ==
    CASE res.kind = "local"   -> <<"#">> \o NumberToString(res.index)
      [] res.kind = "item"    -> <<"#", "G">> \o NumberToString(res.index)
      [] res.kind = "builtin" -> <<"#", "B">>

printIdent(ident) ==
    LET res == IF ident.res # undefined THEN printRes(ident.res) ELSE <<>>
    IN  ident.name \o res

RECURSIVE printType(_, _)
printType(h, r) ==
    LET type == h[r.ref]
    IN  CASE type.kind = "ident" -> printIdent(type.value)
          [] type.kind = "list"  -> <<"[">> \o printType(h, type.elem) \o <<"]">>
          [] type.kind = "tuple" ->
                <<"(">>
                \o Join([i \in 1..Len(type.elems) |-> printType(h, type.elems[i])], CommaSpace)
                \o <<")">>

ind(indent) == Repeat(<<" ", " ">>, indent * 2)

linebreak(indent) == <<NL>> \o ind(indent)

\* strs.map((s) => s.length).reduce((a, b) => a + b, 0)
RECURSIVE SumLen(_)
SumLen(strs) == IF Len(strs) = 0 THEN 0 ELSE Len(strs[1]) + SumLen(Tail(strs))

ShortLimit == 40

RECURSIVE printExpr(_, _, _)
printExpr(h, r, indent) ==
    LET expr == h[r.ref]
    IN  CASE expr.kind = "empty" -> <<>>
          [] expr.kind = "let" ->
                LET type == IF expr.type # undefined
                            THEN ColonSpace \o printType(h, expr.type) ELSE <<>>
                IN  <<"l", "e", "t", " ">> \o expr.name \o type \o <<" ", "=", " ">>
                    \o printExpr(h, expr.rhs, indent + 1) \o <<" ", "i", "n">>
                    \o linebreak(indent) \o printExpr(h, expr.after, indent)
          [] expr.kind = "block" ->
                LET exprs == [i \in 1..Len(expr.exprs) |-> printExpr(h, expr.exprs[i], indent + 1)]
                    shortExprs == SumLen(exprs) < ShortLimit
                    alreadyHasTrailingSpace ==
                        Len(exprs) > 0 /\ h[expr.exprs[Len(exprs)].ref].kind = "empty"
                    trailingSpace == IF alreadyHasTrailingSpace THEN <<>> ELSE <<" ">>
                    joiner == <<";">> \o linebreak(indent + 1)
                IN  IF Len(exprs) = 1 THEN <<"(">> \o exprs[1] \o <<")">>
                    ELSE IF shortExprs
                    THEN <<"(", " ">> \o Join(exprs, <<";", " ">>) \o trailingSpace \o <<")">>
                    ELSE <<"(">> \o linebreak(indent + 1) \o Join(exprs, joiner)
                         \o linebreak(indent) \o <<")">>
          [] expr.kind = "literal" ->
                IF expr.value.kind = "str"
                THEN <<"\"">> \o expr.value.value \o <<"\"">>
                ELSE NumberToString(expr.value.value)
          [] expr.kind = "ident" -> printIdent(expr.value)
          [] expr.kind = "binary" ->
                printExpr(h, expr.lhs, indent) \o <<" ">> \o KindText(expr.binaryKind) \o <<" ">>
                \o printExpr(h, expr.rhs, indent)
          [] expr.kind = "unary" -> KindText(expr.unaryKind) \o printExpr(h, expr.rhs, indent)
          [] expr.kind = "call" ->
                LET args == [i \in 1..Len(expr.args) |-> printExpr(h, expr.args[i], indent + 1)]
                    shortArgs == SumLen(args) < ShortLimit
                IN  IF shortArgs
                    THEN printExpr(h, expr.lhs, indent) \o <<"(">> \o Join(args, CommaSpace)
                         \o <<")">>
                    ELSE printExpr(h, expr.lhs, indent) \o <<"(">> \o linebreak(indent + 1)
                         \o Join(args, linebreak(indent + 1)) \o linebreak(indent) \o <<")">>
          [] expr.kind = "if" ->
                LET elsePart == IF expr.else # undefined
                                THEN <<" ", "e", "l", "s", "e", " ">>
                                     \o printExpr(h, expr.else, indent + 1)
                                ELSE <<>>
                IN  <<"i", "f", " ">> \o printExpr(h, expr.cond, indent + 1)
                    \o <<" ", "t", "h", "e", "n", " ">> \o printExpr(h, expr.then, indent + 1)
                    \o elsePart

printFunction(h, func) ==
    LET args == Join([i \in 1..Len(func.args) |->
                        func.args[i].name \o ColonSpace \o printType(h, func.args[i].type)],
                     CommaSpace)
        ret  == IF func.returnType # undefined
                THEN ColonSpace \o printType(h, func.returnType) ELSE <<>>
    IN  <<"f", "u", "n", "c", "t", "i", "o", "n", " ">> \o func.name \o <<"(">> \o args
        \o <<")">> \o ret \o <<" ", "=", " ">> \o printExpr(h, func.body, 0)

printItem(h, r) == printFunction(h, h[r.ref].node)

printAst(h, rs) == Join([i \in 1..Len(rs) |-> printItem(h, rs[i])], <<NL>>)

\* Trees at any stage: identifiers unresolved and with each kind of resolution.
Resolutions ==
    {ResLocal(i) : i \in Indices} \cup {ResItem(i) : i \in Indices} \cup {ResBuiltin(<<"p">>)}

PrintUniverse ==
    [names |-> {<<"x">>}, ress |-> {undefined} \cup Resolutions,
     literals |-> {[kind |-> "int", value |-> 7], [kind |-> "str", value |-> <<"s">>]},
     binaryKinds |-> {"+", "<="}, unaryKinds |-> UNARY_KINDS, ty |-> undefined]

InitPrint ==
    /\ pc = "build"
    /\ universe = PrintUniverse
    /\ heap = <<>>
    /\ ast = <<>>
    /\ folder = undefined
    /\ result = <<>>
    /\ log = <<>>
    /\ IdlePrint
    /\ IdleError
    /\ IdleTy

CallPrintAst ==
    /\ pc = "build"
    /\ NoHoles(heap)
    /\ pc' = "printedAst"
    /\ printed' = printAst(heap, ast)
    /\ UNCHANGED <<target, astVars, errorVars, tyVars>>

CallPrintExpr(a) ==
    /\ pc = "build"
    /\ NoHoles(heap)
    /\ heap[a].tsType = "Expr"
    /\ pc' = "printedNode"
    /\ target' = Ref(a)
    /\ printed' = printExpr(heap, Ref(a), 0)
    /\ UNCHANGED <<astVars, errorVars, tyVars>>

CallPrintType(a) ==
    /\ pc = "build"
    /\ NoHoles(heap)
    /\ heap[a].tsType = "Type"
    /\ pc' = "printedNode"
    /\ target' = Ref(a)
    /\ printed' = printType(heap, Ref(a))
    /\ UNCHANGED <<astVars, errorVars, tyVars>>

NextPrint ==
    \/ BuildItem(MaxPrintNodes)
    \/ BuildType(MaxPrintNodes)
    \/ BuildExpr(MaxPrintNodes)
    \/ CallPrintAst
    \/ \E a \in 1..Len(heap) : CallPrintExpr(a)
    \/ \E a \in 1..Len(heap) : CallPrintType(a)

SpecPrint == InitPrint /\ [][NextPrint]_vars

(***************************************************************************)
(* Claims about the printer of the tree, checked under SpecPrint.          *)
(***************************************************************************)
\* The suffix C8 fixes for a resolution.
Suffix(res) ==
    CASE res = undefined      -> <<>>
      [] res.kind = "local"   -> <<"#">> \o NumberToString(res.index)
      [] res.kind = "item"    -> <<"#", "G">> \o NumberToString(res.index)
      [] res.kind = "builtin" -> <<"#", "B">>

\* Two resolutions of different kinds, or of the same kind with different indices.
Differ(r1, r2) ==
    \/ r1 = undefined /\ r2 # undefined
    \/ r1 # undefined /\ r2 = undefined
    \/ /\ r1 # undefined
       /\ r2 # undefined
       /\ \/ r1.kind # r2.kind
          \/ r1.kind \in {"local", "item"} /\ r1.index # r2.index

\* C8: an identifier, in expression position and in written-type position, is
\* rendered as its name followed by '#' index (local), '#G' index (item), '#B'
\* (builtin) or nothing (unresolved); an identifier of the same name with a
\* resolution of another kind or index never renders to the same text.
C8_IdentSuffix ==
    (pc = "printedNode" /\ heap[target.ref].kind = "ident") =>
        LET ident == heap[target.ref].value
        IN  /\ printed = ident.name \o Suffix(ident.res)
            /\ \A other \in {undefined} \cup Resolutions :
                  Differ(ident.res, other) =>
                      printIdent(Identifier(ident.name, ident.span, other)) # printed

C8_Witness ==
    /\ pc = "printedNode"
    /\ heap[target.ref].tsType = "Type"
    /\ heap[target.ref].kind = "ident"
    /\ heap[target.ref].value.res = ResItem(12)
    /\ printed = <<"x", "#", "G", "1", "2">>
    /\ \E a \in 1..Len(heap) :
          /\ heap[a].tsType = "Expr"
          /\ heap[a].kind = "ident"
          /\ heap[a].value.res = ResLocal(12)

(***************************************************************************)
(* Claims about error.ts, checked under SpecError.                         *)
(***************************************************************************)
NewlineCount(in) == Cardinality({i \in 1..Len(in) : in[i] = NL})

InBounds(in, span) == 0 <= span.start /\ span.start <= span.end /\ span.end <= Len(in)

IsSentinel(span) == span.start = MAX_SAFE_INTEGER

ThrowsCompilerError == f.kind = "throws" /\ f.e.kind = "CompilerError"

\* C10: lines(input) returns (number of newlines) + 1 spans that partition the
\* text: the first starts at 0, start <= end, no newline inside [start, end),
\* each next span starts just after the newline at the previous span's end,
\* the last ends at the length of the input, and every position 0..length
\* lies in exactly one span.
C10_LinesPartition ==
    pc = "lines" =>
        /\ Len(lineSpans) = NewlineCount(input) + 1
        /\ lineSpans[1].start = 0
        /\ \A k \in 1..Len(lineSpans) :
              /\ lineSpans[k].start <= lineSpans[k].end
              /\ \A i \in (lineSpans[k].start + 1)..lineSpans[k].end : input[i] # NL
        /\ \A k \in 1..(Len(lineSpans) - 1) :
              /\ lineSpans[k + 1].start = lineSpans[k].end + 1
              /\ input[lineSpans[k].end + 1] = NL
        /\ lineSpans[Len(lineSpans)].end = Len(input)
        /\ \A p \in 0..Len(input) :
              Cardinality({k \in 1..Len(lineSpans) :
                              lineSpans[k].start <= p /\ p <= lineSpans[k].end}) = 1

C10_Witness ==
    /\ pc = "lines"
    /\ Len(lineSpans) = 3
    /\ \E k \in 1..Len(lineSpans) : lineSpans[k].end > lineSpans[k].start

\* C5: a CompilerError whose span is in bounds, or whose start is the
\* end-of-input sentinel, is rendered without anything being thrown, with a
\* caret underline of non-negative length that stays within the selected
\* line; 'Span out of bounds' is raised only for a non-sentinel span whose
\* start lies outside the input.
C5_RenderNeverThrows ==
    (pc = "printed" /\ ThrowsCompilerError) =>
        LET r == renderError(input, Filename, f.e)
        IN  /\ (InBounds(input, f.e.span) \/ IsSentinel(f.e.span)) =>
                  /\ raised.kind = "none"
                  /\ Len(console) = 4
                  /\ r.spanLength >= 0
                  /\ r.startRelLine + r.spanLength <= r.line.end - r.line.start
            /\ (raised.kind = "Error") =>
                  /\ ~IsSentinel(f.e.span)
                  /\ (f.e.span.start < 0 \/ f.e.span.start > Len(input))

\* C6: a CompilerError thrown by f is rendered and nothing reaches the caller;
\* any other thrown value reaches the caller unchanged and nothing is
\* rendered; a normal return renders nothing and returns normally.
C6_DiagnosticsVersusDefects ==
    pc = "printed" =>
        /\ ThrowsCompilerError => (raised.kind = "none" /\ Len(console) = 4)
        /\ (f.kind = "throws" /\ f.e.kind # "CompilerError") =>
              (raised = f.e /\ console = <<>>)
        /\ f.kind = "returns" => (raised.kind = "none" /\ console = <<>>)

(***************************************************************************)
(* ast.ts: folders.  A fold threads the heap and the log of handler        *)
(* invocations; every operator returns them with the reference (ref) or    *)
(* the references (refs) it produced.  A folder names, per handler, which  *)
(* function it holds: "default" is the handler of DEFAULT_FOLDER; "keep"   *)
(* is an override returning its argument (v => v); "resolve" is an         *)
(* override of ident returning a copy of the identifier with a resolution. *)
(***************************************************************************)
DEFAULT_FOLDER == [item |-> "default", expr |-> "default", ident |-> "default", type |-> "default"]

Folders ==
    {DEFAULT_FOLDER,
     [DEFAULT_FOLDER EXCEPT !.ident = "resolve"],
     [DEFAULT_FOLDER EXCEPT !.item = "keep"],
     [DEFAULT_FOLDER EXCEPT !.expr = "keep"],
     [DEFAULT_FOLDER EXCEPT !.type = "keep"]}

\* The resolution the "resolve" override attaches.
Resolved == ResItem(12)

\* folder.ident(ident): the value the handler returns.
identHandler(fl, ident) ==
    IF fl.ident = "default" THEN ident
    ELSE Identifier(ident.name, ident.span, Resolved)

\* A handler was entered with the object at r (for ident: the identifier of
\* the node at r).
Enter(S, handler, r) ==
    [heap |-> S.heap, log |-> Append(S.log, [handler |-> handler, arg |-> r])]

\* An object literal: a new cell.
New(S, obj) ==
    [heap |-> Append(S.heap, obj), log |-> S.log, ref |-> Ref(Len(S.heap) + 1)]

Return(S, r) == [heap |-> S.heap, log |-> S.log, ref |-> r]

RECURSIVE folderExpr(_, _, _), folderType(_, _, _), superFoldExpr(_, _, _),
          superFoldType(_, _, _), mapExprs(_, _, _), mapTypes(_, _, _)

\* folder.ident(node.value) for the node at r.
folderIdent(S, fl, r) ==
    LET S1 == Enter(S, "ident", r)
    IN  [heap |-> S1.heap, log |-> S1.log, value |-> identHandler(fl, S1.heap[r.ref].value)]

\* superFoldType writing the folded children into the node it was given.
superFoldTypeInPlace(S, fl, r) ==
    LET type == S.heap[r.ref]
    IN  CASE type.kind = "ident" ->
               LET v == folderIdent(S, fl, r)
               IN  [heap |-> [v.heap EXCEPT ![r.ref].value = v.value], log |-> v.log, ref |-> r]
          [] type.kind = "list" ->
               LET e == folderType(S, fl, type.elem)
               IN  [heap |-> [e.heap EXCEPT ![r.ref].elem = e.ref], log |-> e.log, ref |-> r]
          [] type.kind = "tuple" ->
               LET es == mapTypes(S, fl, type.elems)
               IN  [heap |-> [es.heap EXCEPT ![r.ref].elems = es.refs], log |-> es.log, ref |-> r]

superFoldType(S, fl, r) ==
    LET type == S.heap[r.ref]
        span == type.span
    IN  CASE type.kind = "ident" ->
               LET v == folderIdent(S, fl, r)
               IN  New(v, TypeIdent(span, undefined, v.value))
          [] type.kind = "list" ->
               LET e == folderType(S, fl, type.elem)
               IN  New(e, TypeList(span, undefined, e.ref))
          [] type.kind = "tuple" ->
               LET es == mapTypes(S, fl, type.elems)
               IN  New(es, TypeTuple(span, undefined, es.refs))

\* DEFAULT_FOLDER.type recursing with DEFAULT_FOLDER in place of `this`.
folderTypeNotThis(S, fl, r) ==
    LET S1 == Enter(S, "type", r)
    IN  IF fl.type = "default" THEN superFoldType(S1, DEFAULT_FOLDER, r) ELSE Return(S1, r)

\* folder.type(type)
folderType(S, fl, r) ==
    LET S1 == Enter(S, "type", r)
    IN  IF fl.type = "default" THEN superFoldType(S1, fl, r) ELSE Return(S1, r)

\* types.map((type) => folder.type(type))
mapTypes(S, fl, rs) ==
    IF Len(rs) = 0 THEN [heap |-> S.heap, log |-> S.log, refs |-> <<>>]
    ELSE LET h == folderType(S, fl, rs[1])
             t == mapTypes(h, fl, Tail(rs))
         IN  [heap |-> t.heap, log |-> t.log, refs |-> <<h.ref>> \o t.refs]

\* An optional child: `child && fold(child)`.
optType(S, fl, r) == IF r = undefined THEN Return(S, undefined) ELSE folderType(S, fl, r)

optExpr(S, fl, r) == IF r = undefined THEN Return(S, undefined) ELSE folderExpr(S, fl, r)

superFoldExpr(S, fl, r) ==
    LET expr == S.heap[r.ref]
        span == expr.span
    IN  CASE expr.kind = "empty" -> New(S, ExprEmpty(span, undefined))
          [] expr.kind = "let" ->
               LET t  == optType(S, fl, expr.type)
                   rh == folderExpr(t, fl, expr.rhs)
                   af == folderExpr(rh, fl, expr.after)
               IN  New(af, ExprLet(span, undefined, expr.name, t.ref, rh.ref, af.ref))
          [] expr.kind = "block" ->
               LET es == mapExprs(S, fl, expr.exprs)
               IN  New(es, ExprBlock(span, undefined, es.refs))
          [] expr.kind = "literal" -> New(S, ExprLiteral(span, undefined, expr.value))
          [] expr.kind = "ident" ->
               LET v == folderIdent(S, fl, r)
               IN  New(v, ExprIdent(span, undefined, v.value))
          [] expr.kind = "binary" ->
               LET l  == folderExpr(S, fl, expr.lhs)
                   rh == folderExpr(l, fl, expr.rhs)
               IN  New(rh, ExprBinary(span, undefined, expr.binaryKind, l.ref, rh.ref))
          [] expr.kind = "unary" ->
               LET rh == folderExpr(S, fl, expr.rhs)
               IN  New(rh, ExprUnary(span, undefined, expr.unaryKind, rh.ref))
          [] expr.kind = "call" ->
               LET l  == folderExpr(S, fl, expr.lhs)
                   as == mapExprs(l, fl, expr.args)
               IN  New(as, ExprCall(span, undefined, l.ref, as.refs))
          [] expr.kind = "if" ->
               LET c  == folderExpr(S, fl, expr.cond)
                   th == folderExpr(c, fl, expr.then)
                   el == optExpr(th, fl, expr.else)
               IN  New(el, ExprIf(span, undefined, c.ref, th.ref, el.ref))

\* folder.expr(expr)
folderExpr(S, fl, r) ==
    LET S1 == Enter(S, "expr", r)
    IN  IF fl.expr = "default" THEN superFoldExpr(S1, fl, r) ELSE Return(S1, r)

\* exprs.map((expr) => folder.expr(expr))
mapExprs(S, fl, rs) ==
    IF Len(rs) = 0 THEN [heap |-> S.heap, log |-> S.log, refs |-> <<>>]
    ELSE LET h == folderExpr(S, fl, rs[1])
             t == mapExprs(h, fl, Tail(rs))
         IN  [heap |-> t.heap, log |-> t.log, refs |-> <<h.ref>> \o t.refs]

\* superFoldItem folding the body before the argument types.
superFoldItemBodyFirst(S, fl, r) ==
    LET item == S.heap[r.ref]
        body == folderExpr(S, fl, item.node.body)
        ts   == mapTypes(body, fl, [i \in 1..Len(item.node.args) |-> item.node.args[i].type])
        args == [i \in 1..Len(item.node.args) |->
                    FunctionArg(item.node.args[i].name, ts.refs[i], item.node.args[i].span)]
        rt   == optType(ts, fl, item.node.returnType)
    IN  New(rt, ItemFunction(item.span, item.id, item.node.name, args, body.ref, rt.ref))

superFoldItem(S, fl, r) ==
    LET item == S.heap[r.ref]
        ts   == mapTypes(S, fl, [i \in 1..Len(item.node.args) |-> item.node.args[i].type])
        args == [i \in 1..Len(item.node.args) |->
                    FunctionArg(item.node.args[i].name, ts.refs[i], item.node.args[i].span)]
        body == folderExpr(ts, fl, item.node.body)
        rt   == optType(body, fl, item.node.returnType)
    IN  New(rt, ItemFunction(item.span, item.id, item.node.name, args, body.ref, rt.ref))

\* folder.item(item)
folderItem(S, fl, r) ==
    LET S1 == Enter(S, "item", r)
    IN  IF fl.item = "default" THEN superFoldItem(S1, fl, r) ELSE Return(S1, r)

\* ast.map((item) => folder.item(item))
RECURSIVE mapItems(_, _, _)
mapItems(S, fl, rs) ==
    IF Len(rs) = 0 THEN [heap |-> S.heap, log |-> S.log, refs |-> <<>>]
    ELSE LET h == folderItem(S, fl, rs[1])
             t == mapItems(h, fl, Tail(rs))
         IN  [heap |-> t.heap, log |-> t.log, refs |-> <<h.ref>> \o t.refs]

fold_ast(S, fl, rs) == mapItems(S, fl, rs)

InitFold ==
    /\ pc = "build"
    /\ universe \in {ParsedUniverse, CheckedUniverse}
    /\ heap = <<>>
    /\ ast = <<>>
    /\ folder = undefined
    /\ result = <<>>
    /\ log = <<>>
    /\ IdleError
    /\ IdleTy
    /\ IdlePrint

FoldAst(fl) ==
    /\ pc = "build"
    /\ NoHoles(heap)
    /\ pc' = "folded"
    /\ folder' = fl
    /\ LET r == fold_ast([heap |-> heap, log |-> <<>>], fl, ast)
       IN  heap' = r.heap /\ log' = r.log /\ result' = r.refs
    /\ UNCHANGED <<ast, universe, errorVars, tyVars, printVars>>

NextFold ==
    \/ BuildItem(MaxNodes)
    \/ BuildType(MaxNodes)
    \/ BuildExpr(MaxNodes)
    \/ \E fl \in Folders : FoldAst(fl)

SpecFold == InitFold /\ [][NextFold]_vars

(***************************************************************************)
(* Claims about the fold framework, checked under SpecFold.                *)
(***************************************************************************)
\* The tree below r as a value, references replaced by the subtrees they
\* point to; identifiers as the ident handler of fl returns them; the
\* annotated ty left out unless keepTy.
RECURSIVE TreeOf(_, _, _, _)
TreeOf(h, r, fl, keepTy) ==
    IF r = undefined THEN undefined
    ELSE
    LET n        == h[r.ref]
        sub(x)   == TreeOf(h, x, fl, keepTy)
        subs(xs) == [i \in 1..Len(xs) |-> TreeOf(h, xs[i], fl, keepTy)]
    IN  IF n.tsType = "Item"
        THEN [kind |-> n.kind, span |-> n.span, id |-> n.id, name |-> n.node.name,
              args |-> [i \in 1..Len(n.node.args) |->
                          [name |-> n.node.args[i].name, span |-> n.node.args[i].span,
                           type |-> sub(n.node.args[i].type)]],
              body |-> sub(n.node.body), returnType |-> sub(n.node.returnType)]
        ELSE
        LET t == IF keepTy THEN n.ty ELSE undefined
        IN  CASE n.kind = "empty" -> ExprEmpty(n.span, t)
              [] n.kind = "literal" -> ExprLiteral(n.span, t, n.value)
              [] n.kind = "ident" /\ n.tsType = "Expr" ->
                    ExprIdent(n.span, t, identHandler(fl, n.value))
              [] n.kind = "ident" /\ n.tsType = "Type" ->
                    TypeIdent(n.span, t, identHandler(fl, n.value))
              [] n.kind = "list" -> TypeList(n.span, t, sub(n.elem))
              [] n.kind = "tuple" -> TypeTuple(n.span, t, subs(n.elems))
              [] n.kind = "let" ->
                    ExprLet(n.span, t, n.name, sub(n.type), sub(n.rhs), sub(n.after))
              [] n.kind = "block" -> ExprBlock(n.span, t, subs(n.exprs))
              [] n.kind = "binary" -> ExprBinary(n.span, t, n.binaryKind, sub(n.lhs), sub(n.rhs))
              [] n.kind = "unary" -> ExprUnary(n.span, t, n.unaryKind, sub(n.rhs))
              [] n.kind = "call" -> ExprCall(n.span, t, sub(n.lhs), subs(n.args))
              [] n.kind = "if" -> ExprIf(n.span, t, sub(n.cond), sub(n.then), sub(n.else))

ProgramOf(h, rs, fl, keepTy) == [i \in 1..Len(rs) |-> TreeOf(h, rs[i], fl, keepTy)]

\* The children of the node at r, in the order the claim C9 lists them.
Children(h, r) ==
    LET n == h[r.ref]
        opt(x) == IF x = undefined THEN <<>> ELSE <<x>>
    IN  IF n.tsType = "Item"
        THEN [i \in 1..Len(n.node.args) |-> n.node.args[i].type]
             \o <<n.node.body>> \o opt(n.node.returnType)
        ELSE CASE n.kind \in {"empty", "literal", "ident"} -> <<>>
               [] n.kind = "list" -> <<n.elem>>
               [] n.kind = "tuple" -> n.elems
               [] n.kind = "let" -> opt(n.type) \o <<n.rhs, n.after>>
               [] n.kind = "block" -> n.exprs
               [] n.kind = "binary" -> <<n.lhs, n.rhs>>
               [] n.kind = "unary" -> <<n.rhs>>
               [] n.kind = "call" -> <<n.lhs>> \o n.args
               [] n.kind = "if" -> <<n.cond, n.then>> \o opt(n.else)

HandlerOf(n) ==
    CASE n.tsType = "Item" -> "item" [] n.tsType = "Expr" -> "expr" [] n.tsType = "Type" -> "type"

\* The invocations C9 prescribes for the trees at rs: each node, then its
\* identifier if it has one, then its children in order.
RECURSIVE VisitOrder(_, _)
VisitOrder(h, rs) ==
    IF Len(rs) = 0 THEN <<>>
    ELSE LET r == rs[1]
             n == h[r.ref]
         IN  <<[handler |-> HandlerOf(n), arg |-> r]>>
             \o (IF n.tsType # "Item" /\ n.kind = "ident"
                 THEN <<[handler |-> "ident", arg |-> r]>> ELSE <<>>)
             \o VisitOrder(h, Children(h, r))
             \o VisitOrder(h, Tail(rs))

\* The references of the nodes of the trees at rs.
RECURSIVE Nodes(_, _)
Nodes(h, rs) ==
    IF Len(rs) = 0 THEN {}
    ELSE {rs[1]} \cup Nodes(h, Children(h, rs[1])) \cup Nodes(h, Tail(rs))

IdentNodes(h, rs) == {r \in Nodes(h, rs) : h[r.ref].tsType # "Item" /\ h[r.ref].kind = "ident"}

StructuralDefaults(fl) == fl.item = "default" /\ fl.expr = "default" /\ fl.type = "default"

\* C1: folding with DEFAULT_FOLDER returns a tree equal to the input in every
\* node and field, the annotated ty included.
C1_DefaultFoldIsIdentity ==
    (pc = "folded" /\ folder = DEFAULT_FOLDER) =>
        ProgramOf(heap, result, DEFAULT_FOLDER, TRUE) = ProgramOf(heap, ast, DEFAULT_FOLDER, TRUE)

InputUnchanged == \A a \in 1..Len(heap) : heap'[a] = heap[a]

ResultFresh == \A r \in Nodes(heap', result') : r.ref > Len(heap)

\* C3 as stated: with any folder whose handlers do not write to their
\* argument, the fold leaves every input cell as it was and every item,
\* expression and written-type node of the result is newly built.
C3_Original ==
    [][(pc = "build" /\ pc' = "folded") => (InputUnchanged /\ ResultFresh)]_vars

\* C3 amended: the fold leaves every input cell as it was with any such
\* folder; every item, expression and written-type node of the result is
\* newly built when the item, expr and type handlers are those of
\* DEFAULT_FOLDER (an overriding handler may return the node it was given).
C3_InputNeverMutated ==
    [][(pc = "build" /\ pc' = "folded") =>
          /\ InputUnchanged
          /\ StructuralDefaults(folder') => ResultFresh]_vars

C3_Witness ==
    /\ pc = "folded"
    /\ StructuralDefaults(folder)
    /\ Len(result) >= 1
    /\ \E r \in Nodes(heap, result) : heap[r.ref].tsType = "Type" /\ heap[r.ref].kind = "list"
    /\ \A r \in Nodes(heap, result) : r \notin Nodes(heap, ast)

\* C9: with the structural handlers of DEFAULT_FOLDER, the handlers are
\* invoked in the prescribed order (items in program order; argument types,
\* body, return type; children left to right), exactly once per item,
\* expression, written type and identifier, none skipped.
C9_VisitOrder ==
    (pc = "folded" /\ StructuralDefaults(folder)) =>
        /\ log = VisitOrder(heap, ast)
        /\ \A i, j \in 1..Len(log) : log[i] = log[j] => i = j
        /\ \A r \in Nodes(heap, ast) :
              \E i \in 1..Len(log) : log[i] = [handler |-> HandlerOf(heap[r.ref]), arg |-> r]
        /\ \A r \in IdentNodes(heap, ast) :
              \E i \in 1..Len(log) : log[i] = [handler |-> "ident", arg |-> r]
        /\ Len(log) = Cardinality(Nodes(heap, ast)) + Cardinality(IdentNodes(heap, ast))

\* A function with an argument, a body and a return type: five invocations,
\* the body between the argument type and the return type.
C9_Witness ==
    /\ pc = "folded"
    /\ StructuralDefaults(folder)
    /\ Len(ast) = 1
    /\ Len(heap[ast[1].ref].node.args) = 1
    /\ heap[ast[1].ref].node.returnType # undefined
    /\ Len(log) >= 5
    /\ log[1].handler = "item"
    /\ log[2].handler = "type"
    /\ \E i \in 3..Len(log) : log[i] = [handler |-> "expr", arg |-> heap[ast[1].ref].node.body]

====
